---- MODULE Spec2Model ----
(***************************************************************************)
(* Trip-planning pipeline of the AI Travel Agent: the earlier              *)
(* implementation (ai_travel_agent.py, impl = 1) and the later one         *)
(* (ai_travel_agent_2.py, impl = 2).  The shared TravelState is threaded   *)
(* through the stage handlers in the order fixed by _build_workflow.       *)
(* Money is exact rational arithmetic; dates are calendar triples that     *)
(* strptime turns into ordinals.                                           *)
(***************************************************************************)
EXTENDS Integers, Sequences, FiniteSets, TLC

\* ------------------------------------------------------------------ bounds
\* longest array the language model returns for attractions / hotels / itinerary
MaxLen == 1
\* longest trip, in days, among the requests explored
MaxTripDays == 3

\* ------------------------------------------------------- exact arithmetic
RECURSIVE GCD(_, _)
GCD(a, b) == IF b = 0 THEN a ELSE GCD(b, a % b)

Abs(x) == IF x < 0 THEN -x ELSE x

\* the number n/d in lowest terms, d > 0
Rat(n, d) ==
    LET g == GCD(Abs(n), d)
    IN  IF g = 0 THEN [n |-> 0, d |-> 1] ELSE [n |-> n \div g, d |-> d \div g]

Int2Rat(i) == [n |-> i, d |-> 1]
Zero == Int2Rat(0)

RAdd(a, b) ==
    LET g == GCD(a.d, b.d)
    IN  Rat(a.n * (b.d \div g) + b.n * (a.d \div g), (a.d \div g) * b.d)

RMul(a, b) ==
    LET g1 == GCD(Abs(a.n), b.d)
        g2 == GCD(Abs(b.n), a.d)
    IN  IF a.n = 0 \/ b.n = 0 THEN [n |-> 0, d |-> 1]
        ELSE [n |-> (a.n \div g1) * (b.n \div g2), d |-> (a.d \div g2) * (b.d \div g1)]

\* a / b for b # 0
RDiv(a, b) ==
    IF b.n > 0 THEN RMul(a, [n |-> b.d, d |-> b.n])
    ELSE RMul(a, [n |-> -b.d, d |-> -b.n])

RECURSIVE RSum(_)
RSum(s) == IF s = <<>> THEN Zero ELSE RAdd(Head(s), RSum(Tail(s)))

\* Python round(x, 2): nearest hundredth, ties to the even hundredth
Round2(x) ==
    LET whole == x.n \div x.d
        frac == (x.n % x.d) * 100
        q == frac \div x.d
        r == frac % x.d
        h == IF 2 * r < x.d THEN q
             ELSE IF 2 * r > x.d THEN q + 1
             ELSE IF q % 2 = 0 THEN q ELSE q + 1
    IN  Rat(whole * 100 + h, 100)

\* --------------------------------------------------------------- calendar
IsLeap(y) == (y % 4 = 0) /\ ((y % 100 # 0) \/ (y % 400 = 0))

DaysInMonth(y, m) ==
    IF m = 2 THEN (IF IsLeap(y) THEN 29 ELSE 28)
    ELSE IF m \in {4, 6, 9, 11} THEN 30 ELSE 31

RECURSIVE DaysBeforeMonth(_, _)
DaysBeforeMonth(y, m) == IF m = 1 THEN 0 ELSE DaysBeforeMonth(y, m - 1) + DaysInMonth(y, m - 1)

DaysBeforeYear(y) == (y - 1) * 365 + ((y - 1) \div 4) - ((y - 1) \div 100) + ((y - 1) \div 400)

\* datetime.strptime(s, "%Y-%m-%d") followed by the ordinal used in date subtraction
strptime(date) == DaysBeforeYear(date.y) + DaysBeforeMonth(date.y, date.m) + date.d

\* (end - start).days
DateDiffDays(end_date, start_date) == strptime(end_date) - strptime(start_date)

Max(a, b) == IF a > b THEN a ELSE b
Min(a, b) == IF a < b THEN a ELSE b


\* date + timedelta(days = k), k >= 0
NextDay(date) ==
    IF date.d < DaysInMonth(date.y, date.m) THEN [date EXCEPT !.d = date.d + 1]
    ELSE IF date.m < 12 THEN [date EXCEPT !.m = date.m + 1, !.d = 1]
    ELSE [y |-> date.y + 1, m |-> 1, d |-> 1]

RECURSIVE AddDays(_, _)
AddDays(date, k) == IF k = 0 THEN date ELSE AddDays(NextDay(date), k - 1)

\* ------------------------------------------------------- trip requests
StartDate == [y |-> 2025, m |-> 8, d |-> 30]
DayBeforeStart == [y |-> 2025, m |-> 8, d |-> 29]

BaseRequest ==
    [destination |-> "Lisbon, Portugal", start_date |-> StartDate,
     end_date |-> AddDays(StartDate, 1), budget |-> 1400, currency |-> "USD",
     travelers |-> 2, preferences |-> <<"food">>]

\* requests that satisfy the documented precondition
ValidRequests ==
    { [BaseRequest EXCEPT !.end_date = AddDays(StartDate, k), !.currency = c] :
        k \in 1..MaxTripDays, c \in {"USD", "EUR"} }

\* requests that break it: end on / before start, budget 0, no traveler
InvalidRequests ==
    { [BaseRequest EXCEPT !.end_date = StartDate],
      [BaseRequest EXCEPT !.end_date = DayBeforeStart],
      [BaseRequest EXCEPT !.budget = 0],
      [BaseRequest EXCEPT !.travelers = 0] }

TripRequests == ValidRequests \cup InvalidRequests

ValidRequest(req) ==
    /\ DateDiffDays(req.end_date, req.start_date) > 0
    /\ req.budget > 0
    /\ req.travelers > 0

\* ------------------------------------------------ values held in the state
NumPrice(r) == [tag |-> "num", val |-> r]
StrPrice == [tag |-> "str", val |-> Zero]
NoPrice == [tag |-> "absent", val |-> Zero]

\* an element of the attractions array: a dict with an optional price, or not a dict
AttractionDict(name, price) == [kind |-> "dict", name |-> name, price |-> price]
AttractionOther == [kind |-> "other", name |-> "", price |-> NoPrice]

HotelDict(name, price) == [kind |-> "dict", name |-> name, price_per_night |-> price]
HotelOther == [kind |-> "other", name |-> "", price_per_night |-> NoPrice]

Slots(tag, slots) == [tag |-> tag, slots |-> slots]
DayDict(day, date, activities, meals, cost) ==
    [kind |-> "dict", day |-> day, date |-> date, activities |-> activities,
     meals |-> meals, estimated_cost |-> cost]
DayOther ==
    [kind |-> "other", day |-> 0, date |-> StartDate, activities |-> Slots("absent", <<>>),
     meals |-> Slots("absent", <<>>), estimated_cost |-> 0]

JList(items) == [shape |-> "list", items |-> items]
JObject == [shape |-> "object", items |-> <<>>]

EmptyWeather == [keys |-> {}, current_temp |-> [na |-> TRUE, deg |-> 0, suffix |-> FALSE],
                 condition |-> "", forecast |-> <<>>, recommendations |-> <<>>]

EmptyExpenses ==
    [keys |-> {}, accommodation |-> Zero, food |-> Zero, transportation |-> Zero,
     activities |-> Zero, miscellaneous |-> Zero, total |-> Zero, daily_budget |-> Zero,
     days |-> Zero]

\* one line of a summary: fixed text, possibly with a formatted amount or dates
SummaryLine(label, text, value, dates) ==
    [label |-> label, text |-> text, value |-> value, dates |-> dates]
Line(text) == SummaryLine("", text, Zero, <<>>)

\* --------------------------------------------- what the collaborators return
\* prices the language model may put in an element
ModelPrices == { Rat(133333, 1000), Rat(33333, 1000) }

RECURSIVE SeqsUpTo(_, _)
SeqsUpTo(S, n) ==
    IF n = 0 THEN {<<>>}
    ELSE LET shorter == SeqsUpTo(S, n - 1)
         IN  shorter \cup { Append(s, e) : s \in { t \in shorter : Len(t) = n - 1 }, e \in S }

AttractionElems ==
    { AttractionDict("A", NumPrice(p)) : p \in ModelPrices }
      \cup { AttractionDict("A", StrPrice), AttractionDict("A", NoPrice), AttractionOther }

HotelElems ==
    { HotelDict("H", NumPrice(p)) : p \in ModelPrices }
      \cup { HotelDict("H", NoPrice), HotelOther }

DayElems ==
    { DayDict(1, StartDate, Slots("strs", <<"Visit">>), Slots("strs", <<"Lunch">>), 0),
      DayDict(1, StartDate, Slots("dicts", <<"Visit">>), Slots("dicts", <<"Lunch">>), 0),
      DayOther }

\* a model call: it raises, or returns text that holds no JSON, malformed JSON,
\* or a JSON value
Reply(ok, decode, value) == [ok |-> ok, decode |-> decode, value |-> value]

ModelReplies(elems) ==
    { Reply(FALSE, "nojson", JObject), Reply(TRUE, "nojson", JObject),
      Reply(TRUE, "malformed", JObject), Reply(TRUE, "value", JObject) }
      \cup { Reply(TRUE, "value", JList(items)) : items \in SeqsUpTo(elems, MaxLen) }

SearchOutcomes == {"ok", "error"}

WeatherDay(date, max_temp, precipitation) ==
    [date |-> date, max_temp |-> max_temp, precipitation |-> precipitation]

\* the forecast service: the request fails, or a payload with or without the
\* current temperature and the daily block
WeatherResponse(fetched, has_temp, deg, has_daily, days) ==
    [fetched |-> fetched, has_temp |-> has_temp, deg |-> deg, has_daily |-> has_daily,
     days |-> days]

WeatherResponses ==
    { WeatherResponse(FALSE, FALSE, 0, FALSE, <<>>),
      WeatherResponse(TRUE, TRUE, 20, TRUE, <<WeatherDay(StartDate, 22, 0)>>),
      WeatherResponse(TRUE, TRUE, 5, FALSE, <<>>) }

\* --------------------------------------------------------------- the state
VARIABLES
    impl,            \* 1: ai_travel_agent.py, 2: ai_travel_agent_2.py
    pc,              \* "idle", the workflow node to run next, "END" or "raised"
    result,          \* what plan_trip gave its caller: "none", "state", "error", "exception"
    trip_request, weather_info, attractions, hotels, expenses, currency_rates,
    itinerary, summary, current_step, errors,          \* TravelState
    ran,             \* history: the stages whose execute was entered, in order
    written,         \* history: the state keys assigned so far
    fellback,        \* history: the stages that took their fallback branch
    silent,          \* history: defaults substituted without an errors entry
    calls,           \* history: number of external calls made
    all_failed,      \* history: every external call made so far raised
    decoded,         \* history: the shape the last stage's reply decoded to, or "none"
    response_content, expected_type,    \* the arguments of a call of _parse_llm_json
    parsed_json,     \* what that call did: the exception raised, the slice decoded, the value
    form,            \* the values a front-end's handler was called with, if one was
    reported         \* what that handler showed: "none", an error kind, or "plan"

state_vars == <<trip_request, weather_info, attractions, hotels, expenses, currency_rates,
                itinerary, summary, current_step, errors>>
hist_vars == <<ran, written, fellback, silent, calls, all_failed, decoded>>
parse_vars == <<response_content, expected_type, parsed_json>>
ui_vars == <<form, reported>>
vars == <<impl, pc, result, state_vars, hist_vars, parse_vars, ui_vars>>

\* variant: the entry carries the message without the agent's name
ErrorEntryUnnamed(stage, msg) == [stage |-> "", msg |-> msg]

ErrorEntry(stage, msg) == [stage |-> stage, msg |-> msg]

EmptyRates == [keys |-> {}, rate |-> Int2Rat(1)]

\* _parse_llm_json has not been called
NotCalled == [raised |-> "", called |-> FALSE, json_str |-> <<>>, value |-> JObject]

\* plan_trip called directly, by no front-end
NoForm == [front_end |-> "none"]

Init ==
    /\ impl \in {1, 2}
    /\ pc = "idle"
    /\ result = "none"
    /\ trip_request \in TripRequests
    /\ weather_info = EmptyWeather
    /\ attractions = JList(<<>>)
    /\ hotels = JList(<<>>)
    /\ expenses = EmptyExpenses
    /\ currency_rates = EmptyRates
    /\ itinerary = JList(<<>>)
    /\ summary = <<>>
    /\ current_step = ""
    /\ errors = <<>>
    /\ ran = <<>>
    /\ written = {}
    /\ fellback = {}
    /\ silent = {}
    /\ calls = 0
    /\ all_failed = TRUE
    /\ decoded = "none"
    /\ response_content = <<>>
    /\ expected_type = "object"
    /\ parsed_json = NotCalled
    /\ form = NoForm
    /\ reported = "none"

\* the top-level shape of the JSON value a reply's text holds, if it holds one
DecodedShape(response) ==
    IF response.ok /\ response.decode = "value" THEN response.value.shape ELSE "none"

\* ------------------------------------------------ ai_travel_agent_2.py
\* _parse_llm_json on the text of a reply: the exception raised ("none" when
\* it returns) and the value returned
\* variant: the decoded value is returned whatever its top-level type
parse_llm_json_any_type(content, expected) ==
    IF content.decode = "nojson" THEN [raised |-> "JSONDecodeError", value |-> JObject]
    ELSE IF content.decode = "malformed" THEN [raised |-> "JSONDecodeError", value |-> JObject]
    ELSE [raised |-> "none", value |-> content.value]

parse_llm_json(content, expected) ==
    IF content.decode = "nojson" THEN [raised |-> "JSONDecodeError", value |-> JObject]
    ELSE IF content.decode = "malformed" THEN [raised |-> "JSONDecodeError", value |-> JObject]
    ELSE IF content.value.shape # expected THEN [raised |-> "ValueError", value |-> JObject]
    ELSE [raised |-> "none", value |-> content.value]

\* BaseAgent._search_web never raises: an error becomes the text "Search error: ..."
SearchWebV2(outcome) ==
    /\ silent' = IF outcome = "error" THEN silent \cup {"search"} ELSE silent

PlanTripV2 ==
    /\ impl = 2 /\ pc = "idle"
    /\ weather_info' = EmptyWeather
    /\ attractions' = JList(<<>>)
    /\ hotels' = JList(<<>>)
    /\ expenses' = EmptyExpenses
    /\ itinerary' = JList(<<>>)
    /\ summary' = <<>>
    /\ errors' = <<>>
    /\ pc' = "weather_node"
    /\ UNCHANGED <<impl, ui_vars, parse_vars, result, trip_request, currency_rates, current_step, hist_vars>>

WeatherFallbackV2 ==
    [keys |-> {"current_temp", "forecast", "recommendations"},
     current_temp |-> [na |-> TRUE, deg |-> 0, suffix |-> FALSE],
     condition |-> "", forecast |-> <<>>,
     recommendations |-> <<"Weather data unavailable.">>]

WeatherDataV2(wd) ==
    [keys |-> {"current_temp", "forecast", "recommendations"},
     current_temp |-> [na |-> ~wd.has_temp, deg |-> wd.deg, suffix |-> TRUE],
     condition |-> "",
     forecast |-> [i \in 1..Len(wd.days) |->
                     WeatherDay(wd.days[i].date, wd.days[i].max_temp, 0)],
     recommendations |-> <<"Pack layers for changing weather.", "An umbrella is recommended.">>]

WeatherAgentExecuteV2 ==
    /\ impl = 2 /\ pc = "weather_node"
    /\ \E geo \in {"ok", "error"}, wd \in WeatherResponses :
        /\ silent' = IF geo = "error" THEN silent \cup {"geocode"} ELSE silent
        /\ all_failed' = (all_failed /\ (geo = "error") /\ (~wd.fetched))
        /\ IF wd.fetched /\ wd.has_daily
           THEN /\ weather_info' = WeatherDataV2(wd)
                /\ UNCHANGED <<errors, fellback>>
           ELSE /\ weather_info' = WeatherFallbackV2
                /\ errors' = Append(errors, ErrorEntry("WeatherAgent", "Failed to retrieve data."))
                /\ fellback' = fellback \cup {"WeatherAgent"}
    /\ calls' = calls + 2
    /\ ran' = Append(ran, "WeatherAgent")
    /\ decoded' = "none"
    /\ written' = written \cup {"weather_info"}
    /\ pc' = "attractions_node"
    /\ UNCHANGED <<impl, ui_vars, parse_vars, result, trip_request, attractions, hotels, expenses, currency_rates,
                   itinerary, summary, current_step>>

AttractionFallbackV2 == <<AttractionDict("Eiffel Tower", NumPrice(Int2Rat(28)))>>

AttractionAgentExecuteV2 ==
    /\ impl = 2 /\ pc = "attractions_node"
    /\ \E search \in SearchOutcomes, response \in ModelReplies(AttractionElems) :
        /\ SearchWebV2(search)
        /\ all_failed' = (all_failed /\ (search = "error") /\ (~response.ok))
        /\ decoded' = DecodedShape(response)
        /\ LET parsed == parse_llm_json(response, "list")
           IN  IF response.ok /\ parsed.raised = "none"
               THEN /\ attractions' = parsed.value
                    /\ UNCHANGED <<errors, fellback>>
               ELSE /\ attractions' = JList(AttractionFallbackV2)
                    /\ errors' = Append(errors,
                                   ErrorEntry("AttractionAgent", "Failed to parse LLM response."))
                    /\ fellback' = fellback \cup {"AttractionAgent"}
    /\ calls' = calls + 2
    /\ ran' = Append(ran, "AttractionAgent")
    /\ written' = written \cup {"attractions"}
    /\ pc' = "hotels_node"
    /\ UNCHANGED <<impl, ui_vars, parse_vars, result, trip_request, weather_info, hotels, expenses, currency_rates,
                   itinerary, summary, current_step>>

HotelFallbackV2 == <<HotelDict("The Ritz Paris", NumPrice(Int2Rat(2000)))>>

HotelAgentExecuteV2 ==
    /\ impl = 2 /\ pc = "hotels_node"
    /\ \E search \in SearchOutcomes, response \in ModelReplies(HotelElems) :
        /\ SearchWebV2(search)
        /\ all_failed' = (all_failed /\ (search = "error") /\ (~response.ok))
        /\ decoded' = DecodedShape(response)
        /\ LET parsed == parse_llm_json(response, "list")
           IN  IF response.ok /\ parsed.raised = "none"
               THEN /\ hotels' = parsed.value
                    /\ UNCHANGED <<errors, fellback>>
               ELSE /\ hotels' = JList(HotelFallbackV2)
                    /\ errors' = Append(errors,
                                   ErrorEntry("HotelAgent", "Failed to parse LLM response."))
                    /\ fellback' = fellback \cup {"HotelAgent"}
    /\ calls' = calls + 2
    /\ ran' = Append(ran, "HotelAgent")
    /\ written' = written \cup {"hotels"}
    /\ pc' = "costs_node"
    /\ UNCHANGED <<impl, ui_vars, parse_vars, result, trip_request, weather_info, attractions, expenses,
                   currency_rates, itinerary, summary, current_step>>

\* variant: both the start and the end day are counted
DaysV2Inclusive(req) == Max(1, DateDiffDays(req.end_date, req.start_date) + 1)

\* days = max(1, (end - start).days)
DaysV2(req) == Max(1, DateDiffDays(req.end_date, req.start_date))

SomeElem(items, P(_)) == \E i \in 1..Len(items) : P(items[i])

IsOther(e) == e.kind = "other"
HasStrPrice(a) == a.price.tag = "str"
HasNumNightPrice(h) == h.price_per_night.tag = "num"

\* h.get / a.get on an element that is not a dict, or sum() over a price that
\* is not a number
CostRaisesV2(hs, as) ==
    \/ SomeElem(hs.items, IsOther)
    \/ SomeElem(as.items, IsOther)
    \/ SomeElem(as.items, HasStrPrice)

\* a.get('price', 25.0)
PriceOrDefaultV2(a) == IF a.price.tag = "absent" THEN Int2Rat(25) ELSE a.price.val

ExpensesV2(req, hs, as) ==
    LET days == DaysV2(req)
        priced == SelectSeq(hs.items, HasNumNightPrice)
        hotel_prices == [i \in 1..Len(priced) |-> priced[i].price_per_night.val]
        avg_hotel_price == IF hotel_prices # <<>>
                           THEN RDiv(RSum(hotel_prices), Int2Rat(Len(hotel_prices)))
                           ELSE Int2Rat(200)
        accommodation_cost == RMul(avg_hotel_price, Int2Rat(days))
        food_cost == Int2Rat(80 * days * req.travelers)
        transport_cost == Int2Rat(30 * days * req.travelers)
        activities_cost ==
            RMul(RSum([i \in 1..Len(as.items) |-> PriceOrDefaultV2(as.items[i])]),
                 Int2Rat(req.travelers))
        total_cost == RAdd(RAdd(accommodation_cost, food_cost),
                           RAdd(transport_cost, activities_cost))
    IN  [keys |-> {"accommodation", "food", "transportation", "activities", "total", "days",
                   "daily_budget"},
         accommodation |-> Round2(accommodation_cost),
         food |-> Round2(food_cost),
         transportation |-> Round2(transport_cost),
         activities |-> Round2(activities_cost),
         miscellaneous |-> Zero,
         total |-> Round2(total_cost),
         daily_budget |-> Round2(RDiv(total_cost, Int2Rat(days))),
         days |-> Int2Rat(days)]

\* variant: the calculator consumes the hotel list it has priced
CostCalculatorAgentExecuteV2ClearsHotels ==
    /\ impl = 2 /\ pc = "costs_node"
    /\ ran' = Append(ran, "CostCalculatorAgent")
    /\ decoded' = "none"
    /\ IF CostRaisesV2(hotels, attractions)
       THEN /\ pc' = "raised"
            /\ UNCHANGED <<expenses, written, hotels>>
       ELSE /\ expenses' = ExpensesV2(trip_request, hotels, attractions)
            /\ hotels' = JList(<<>>)
            /\ written' = written \cup {"expenses"}
            /\ pc' = "itinerary_node"
    /\ UNCHANGED <<impl, ui_vars, parse_vars, result, trip_request, weather_info, attractions,
                   currency_rates, itinerary, summary, current_step, errors, fellback, silent,
                   calls, all_failed>>

CostCalculatorAgentExecuteV2 ==
    /\ impl = 2 /\ pc = "costs_node"
    /\ ran' = Append(ran, "CostCalculatorAgent")
    /\ decoded' = "none"
    /\ IF CostRaisesV2(hotels, attractions)
       THEN /\ pc' = "raised"
            /\ UNCHANGED <<expenses, written>>
       ELSE /\ expenses' = ExpensesV2(trip_request, hotels, attractions)
            /\ written' = written \cup {"expenses"}
            /\ pc' = "itinerary_node"
    /\ UNCHANGED <<impl, ui_vars, parse_vars, result, trip_request, weather_info, attractions, hotels,
                   currency_rates, itinerary, summary, current_step, errors, fellback, silent,
                   calls, all_failed>>

ItineraryFallbackV2(req) ==
    <<DayDict(1, req.start_date, Slots("strs", <<"Arrival and explore.">>),
              Slots("strs", <<"Dinner at a local bistro.">>), 0)>>

ItineraryAgentExecuteV2 ==
    /\ impl = 2 /\ pc = "itinerary_node"
    /\ \E response \in ModelReplies(DayElems) :
        /\ all_failed' = (all_failed /\ (~response.ok))
        /\ decoded' = DecodedShape(response)
        /\ LET parsed == parse_llm_json(response, "list")
           IN  IF response.ok /\ parsed.raised = "none"
               THEN /\ itinerary' = parsed.value
                    /\ UNCHANGED <<errors, fellback>>
               ELSE /\ itinerary' = JList(ItineraryFallbackV2(trip_request))
                    /\ errors' = Append(errors,
                                   ErrorEntry("ItineraryAgent", "Failed to parse LLM response."))
                    /\ fellback' = fellback \cup {"ItineraryAgent"}
    /\ calls' = calls + 1
    /\ ran' = Append(ran, "ItineraryAgent")
    /\ written' = written \cup {"itinerary"}
    /\ pc' = "summary_node"
    /\ UNCHANGED <<impl, ui_vars, parse_vars, result, trip_request, weather_info, attractions, hotels, expenses,
                   currency_rates, summary, current_step, silent>>

\* the text a summary model call returns: it raises, or answers with some text
SummaryReplies ==
    { [ok |-> FALSE, text |-> <<>>], [ok |-> TRUE, text |-> <<>>],
      [ok |-> TRUE, text |-> <<Line("model summary")>>] }

SummaryFallbackV2 ==
    <<Line("# Travel Plan Summary (Error)"),
      Line("An error occurred while generating the detailed summary.")>>

\* day.get on an element that is not a dict, or ", ".join over entries that
\* are not strings, while itinerary_str is built ahead of the try block
JoinRaises(day) == day.activities.tag = "dicts" \/ day.meals.tag = "dicts"

SummaryRaisesV2(it) == SomeElem(it.items, IsOther) \/ SomeElem(it.items, JoinRaises)

SummaryAgentExecuteV2 ==
    /\ impl = 2 /\ pc = "summary_node"
    /\ ran' = Append(ran, "SummaryAgent")
    /\ decoded' = "none"
    /\ IF SummaryRaisesV2(itinerary)
       THEN /\ pc' = "raised"
            /\ UNCHANGED <<summary, errors, fellback, written, calls, all_failed>>
       ELSE /\ \E response \in SummaryReplies :
                 /\ all_failed' = (all_failed /\ (~response.ok))
                 /\ IF response.ok
                    THEN /\ summary' = response.text
                         /\ UNCHANGED <<errors, fellback>>
                    ELSE /\ summary' = SummaryFallbackV2
                         /\ errors' = Append(errors,
                                        ErrorEntry("SummaryAgent", "Failed to generate summary."))
                         /\ fellback' = fellback \cup {"SummaryAgent"}
            /\ calls' = calls + 1
            /\ written' = written \cup {"summary"}
            /\ pc' = "END"
    /\ UNCHANGED <<impl, ui_vars, parse_vars, result, trip_request, weather_info, attractions, hotels, expenses,
                   currency_rates, itinerary, current_step, silent>>

\* workflow.invoke returned: plan_trip hands the final state to its caller
PlanTripReturnV2 ==
    /\ impl = 2 /\ pc = "END"
    /\ result' = "state"
    /\ pc' = "done"
    /\ UNCHANGED <<impl, ui_vars, parse_vars, state_vars, hist_vars>>

\* a node raised: plan_trip has no handler, the exception reaches the caller
PlanTripRaiseV2 ==
    /\ impl = 2 /\ pc = "raised"
    /\ result' = "exception"
    /\ pc' = "done"
    /\ UNCHANGED <<impl, ui_vars, parse_vars, state_vars, hist_vars>>

NextV2 ==
    \/ PlanTripV2
    \/ WeatherAgentExecuteV2
    \/ AttractionAgentExecuteV2
    \/ HotelAgentExecuteV2
    \/ CostCalculatorAgentExecuteV2
    \/ ItineraryAgentExecuteV2
    \/ SummaryAgentExecuteV2
    \/ PlanTripReturnV2
    \/ PlanTripRaiseV2

\* ------------------------------------------------ ai_travel_agent.py
PlanTripV1 ==
    /\ impl = 1 /\ pc = "idle"
    /\ weather_info' = EmptyWeather
    /\ attractions' = JList(<<>>)
    /\ hotels' = JList(<<>>)
    /\ expenses' = EmptyExpenses
    /\ currency_rates' = EmptyRates
    /\ itinerary' = JList(<<>>)
    /\ summary' = <<>>
    /\ current_step' = "start"
    /\ errors' = <<>>
    /\ pc' = "weather_agent"
    /\ UNCHANGED <<impl, ui_vars, parse_vars, result, trip_request, hist_vars>>

\* SupervisorAgent.route_next: the agent to run after current_step
RoutingMap ==
    [start |-> "weather", weather_completed |-> "attractions",
     attractions_completed |-> "hotels", hotels_completed |-> "costs",
     costs_completed |-> "currency", currency_completed |-> "itinerary",
     itinerary_completed |-> "summary", completed |-> "END"]

RouteNext(step) == IF step \in DOMAIN RoutingMap THEN RoutingMap[step] ELSE "END"

\* SupervisorAgent.agents, each agent under the name of its workflow node
AgentNodes ==
    [weather |-> "weather_agent", attractions |-> "attractions_agent",
     hotels |-> "hotels_agent", costs |-> "costs_agent", currency |-> "currency_agent",
     itinerary |-> "itinerary_agent", summary |-> "summary_agent"]

\* the agent's execute is entered: as the workflow node the graph has reached,
\* or, under SupervisorAgent.execute, as the agent route_next names
AtNodeV1(node) ==
    IF pc = "supervisor"
    THEN /\ RouteNext(current_step) \in DOMAIN AgentNodes
         /\ AgentNodes[RouteNext(current_step)] = node
    ELSE pc = node

\* the agent's execute returned: the graph follows its edge, while
\* SupervisorAgent.execute returns to its caller
ThenNodeV1(next) == pc' = IF pc = "supervisor" THEN "supervisor" ELSE next

\* BaseAgent._search_web never raises: an error becomes the text "Search error: ..."
SearchWebV1(outcome) ==
    /\ silent' = IF outcome = "error" THEN silent \cup {"search"} ELSE silent

WeatherUnavailableV1 ==
    [keys |-> {"current_temp", "condition", "forecast", "recommendations"},
     current_temp |-> [na |-> TRUE, deg |-> 0, suffix |-> FALSE],
     condition |-> "Data unavailable", forecast |-> <<>>,
     recommendations |-> <<"Check weather before departure">>]

HeavyRain(day) == day.precipitation > 5

RecommendationsV1HotFrom25(wd, forecast) ==
    LET by_temp == IF ~wd.has_temp THEN <<>>
                   ELSE IF wd.deg < 10 THEN <<"Pack warm clothing and layers">>
                   ELSE IF wd.deg >= 25
                        THEN <<"Pack light, breathable clothing and sun protection">>
                   ELSE <<"Comfortable weather for outdoor activities">>
        by_rain == IF SomeElem(forecast, HeavyRain)
                   THEN <<"Pack rain gear and plan indoor activities">> ELSE <<>>
    IN  by_temp \o by_rain

RecommendationsV1(wd, forecast) ==
    LET by_temp == IF ~wd.has_temp THEN <<>>
                   ELSE IF wd.deg < 10 THEN <<"Pack warm clothing and layers">>
                   ELSE IF wd.deg > 25
                        THEN <<"Pack light, breathable clothing and sun protection">>
                   ELSE <<"Comfortable weather for outdoor activities">>
        by_rain == IF SomeElem(forecast, HeavyRain)
                   THEN <<"Pack rain gear and plan indoor activities">> ELSE <<>>
    IN  by_temp \o by_rain

WeatherDataV1(wd) ==
    LET forecast == IF wd.has_daily THEN SubSeq(wd.days, 1, Min(7, Len(wd.days))) ELSE <<>>
        recommendations == RecommendationsV1(wd, forecast)
    IN  [keys |-> {"current_temp", "condition", "forecast", "recommendations"},
         current_temp |-> [na |-> ~wd.has_temp, deg |-> wd.deg, suffix |-> wd.has_temp],
         condition |-> "Clear sky",
         forecast |-> forecast,
         recommendations |-> IF recommendations # <<>> THEN recommendations
                             ELSE <<"Check weather before departure">>]

\* execute, the forecast service answering with one of the given payloads
WeatherAgentRunsV1(responses) ==
    /\ impl = 1 /\ AtNodeV1("weather_agent")
    /\ \E search \in SearchOutcomes, coords \in {"ok", "raises", "notjson"},
          wd \in responses :
        /\ silent' = silent \cup (IF search = "error" THEN {"search"} ELSE {})
                             \cup (IF coords # "ok" THEN {"geocode"} ELSE {})
        /\ all_failed' = (all_failed /\ (search = "error") /\ (coords = "raises")
                                      /\ (~wd.fetched))
        /\ IF wd.fetched
           THEN /\ weather_info' = WeatherDataV1(wd)
                /\ UNCHANGED fellback
           ELSE /\ weather_info' = WeatherUnavailableV1
                /\ fellback' = fellback \cup {"WeatherAgent"}
    /\ current_step' = "weather_completed"
    /\ calls' = calls + 3
    /\ ran' = Append(ran, "WeatherAgent")
    /\ decoded' = "none"
    /\ written' = written \cup {"weather_info", "current_step"}
    /\ ThenNodeV1("attractions_agent")
    /\ UNCHANGED <<impl, ui_vars, parse_vars, result, trip_request, attractions, hotels, expenses, currency_rates,
                   itinerary, summary, errors>>

WeatherAgentExecuteV1 == WeatherAgentRunsV1(WeatherResponses)

\* json.loads(response.content): the whole text must be one JSON value
JsonLoadsFails(response) == response.decode # "value"

AttractionFallbackV1 == <<AttractionDict("Local Exploration", NumPrice(Zero))>>

AttractionAgentExecuteV1 ==
    /\ impl = 1 /\ AtNodeV1("attractions_agent")
    /\ \E search \in SearchOutcomes, response \in ModelReplies(AttractionElems) :
        /\ SearchWebV1(search)
        /\ all_failed' = (all_failed /\ (search = "error") /\ (~response.ok))
        /\ decoded' = DecodedShape(response)
        /\ IF response.ok /\ ~JsonLoadsFails(response)
           THEN /\ attractions' = response.value
                /\ UNCHANGED fellback
           ELSE /\ attractions' = JList(AttractionFallbackV1)
                /\ fellback' = fellback \cup {"AttractionAgent"}
    /\ current_step' = "attractions_completed"
    /\ calls' = calls + 4
    /\ ran' = Append(ran, "AttractionAgent")
    /\ written' = written \cup {"attractions", "current_step"}
    /\ ThenNodeV1("hotels_agent")
    /\ UNCHANGED <<impl, ui_vars, parse_vars, result, trip_request, weather_info, hotels, expenses, currency_rates,
                   itinerary, summary, errors>>

\* price_per_night: budget // 14
HotelFallbackV1(req) == <<HotelDict("Budget Hotel", NumPrice(Int2Rat(req.budget \div 14)))>>

HotelAgentExecuteV1 ==
    /\ impl = 1 /\ AtNodeV1("hotels_agent")
    /\ \E search \in SearchOutcomes, response \in ModelReplies(HotelElems) :
        /\ SearchWebV1(search)
        /\ all_failed' = (all_failed /\ (search = "error") /\ (~response.ok))
        /\ decoded' = DecodedShape(response)
        /\ IF response.ok /\ ~JsonLoadsFails(response)
           THEN /\ hotels' = response.value
                /\ UNCHANGED fellback
           ELSE /\ hotels' = JList(HotelFallbackV1(trip_request))
                /\ fellback' = fellback \cup {"HotelAgent"}
    /\ current_step' = "hotels_completed"
    /\ calls' = calls + 3
    /\ ran' = Append(ran, "HotelAgent")
    /\ written' = written \cup {"hotels", "current_step"}
    /\ ThenNodeV1("costs_agent")
    /\ UNCHANGED <<impl, ui_vars, parse_vars, result, trip_request, weather_info, attractions, expenses,
                   currency_rates, itinerary, summary, errors>>

\* (end - start).days, not clamped
DaysV1(req) == DateDiffDays(req.end_date, req.start_date)

FirstNKeepsAll(items, n) == items

FirstN(items, n) == SubSeq(items, 1, Min(n, Len(items)))

NoNumNightPrice(h) == h.kind = "other" \/ h.price_per_night.tag # "num"
HasPositivePrice(a) == a.price.tag = "num" /\ a.price.val.n > 0

\* hotels[:3] on a dict, h["price_per_night"] on a non-dict or without the key,
\* sum() over a text price; iterating a dict's keys and calling a.get on them,
\* a.get on a non-dict, comparing a text price with 0; total_cost / 0
ElementRaisesV1(hs, as) ==
    \/ hs.shape = "object"
    \/ SomeElem(FirstN(hs.items, 3), NoNumNightPrice)
    \/ as.shape = "object"
    \/ SomeElem(as.items, IsOther)
    \/ SomeElem(as.items, HasStrPrice)

\* the divisors of the three divisions: min(3, len(hotels)) when there are
\* hotels, max(1, len(activity_costs)), days
DivisorsV1(req, hs, as) ==
    (IF hs.items # <<>> THEN {Min(3, Len(hs.items))} ELSE {})
      \cup {Max(1, Len(FirstN(SelectSeq(as.items, HasPositivePrice), 10))), DaysV1(req)}

\* execute reaches a division whose divisor is 0
ZeroDivisionV1(req, hs, as) == ~ElementRaisesV1(hs, as) /\ 0 \in DivisorsV1(req, hs, as)

CostRaisesV1(req, hs, as) == ElementRaisesV1(hs, as) \/ ZeroDivisionV1(req, hs, as)

ExpensesV1(req, hs, as) ==
    LET days == DaysV1(req)
        first3 == FirstN(hs.items, 3)
        avg_hotel_price ==
            IF hs.items # <<>>
            THEN RDiv(RSum([i \in 1..Len(first3) |-> first3[i].price_per_night.val]),
                      Int2Rat(Min(3, Len(hs.items))))
            ELSE Int2Rat(100)
        accommodation_cost == RMul(avg_hotel_price, Int2Rat(days))
        food_cost == Int2Rat(50 * days * req.travelers)
        transportation_cost == Int2Rat(200 * req.travelers)
        paid == SelectSeq(as.items, HasPositivePrice)
        first10 == FirstN(paid, 10)
        avg_activity_cost ==
            RDiv(RSum([i \in 1..Len(first10) |-> first10[i].price.val]),
                 Int2Rat(Max(1, Len(first10))))
        activities_cost == RMul(RMul(avg_activity_cost, Int2Rat(days)), Rat(7, 10))
        miscellaneous_cost ==
            RMul(RAdd(RAdd(accommodation_cost, food_cost), activities_cost), Rat(1, 10))
        total_cost == RAdd(RAdd(RAdd(accommodation_cost, food_cost),
                                RAdd(transportation_cost, activities_cost)),
                           miscellaneous_cost)
        daily_budget == RDiv(total_cost, Int2Rat(days))
    IN  [keys |-> {"accommodation", "food", "transportation", "activities", "miscellaneous",
                   "total", "daily_budget", "days"},
         accommodation |-> accommodation_cost,
         food |-> food_cost,
         transportation |-> transportation_cost,
         activities |-> activities_cost,
         miscellaneous |-> miscellaneous_cost,
         total |-> total_cost,
         daily_budget |-> daily_budget,
         days |-> Int2Rat(days)]

\* variant: the calculator adds the new total to the one already stored
CostCalculatorAgentExecuteV1Accumulates ==
    /\ impl = 1 /\ AtNodeV1("costs_agent")
    /\ ran' = Append(ran, "CostCalculatorAgent")
    /\ decoded' = "none"
    /\ IF CostRaisesV1(trip_request, hotels, attractions)
       THEN /\ pc' = "raised"
            /\ UNCHANGED <<expenses, current_step, written>>
       ELSE /\ expenses' = [ExpensesV1(trip_request, hotels, attractions) EXCEPT
                              !.total = RAdd(@, expenses.total)]
            /\ current_step' = "costs_completed"
            /\ written' = written \cup {"expenses", "current_step"}
            /\ ThenNodeV1("currency_agent")
    /\ UNCHANGED <<impl, ui_vars, parse_vars, result, trip_request, weather_info, attractions, hotels,
                   currency_rates, itinerary, summary, errors, fellback, silent, calls,
                   all_failed>>

CostCalculatorAgentExecuteV1 ==
    /\ impl = 1 /\ AtNodeV1("costs_agent")
    /\ ran' = Append(ran, "CostCalculatorAgent")
    /\ decoded' = "none"
    /\ IF CostRaisesV1(trip_request, hotels, attractions)
       THEN /\ pc' = "raised"
            /\ UNCHANGED <<expenses, current_step, written>>
       ELSE /\ expenses' = ExpensesV1(trip_request, hotels, attractions)
            /\ current_step' = "costs_completed"
            /\ written' = written \cup {"expenses", "current_step"}
            /\ ThenNodeV1("currency_agent")
    /\ UNCHANGED <<impl, ui_vars, parse_vars, result, trip_request, weather_info, attractions, hotels,
                   currency_rates, itinerary, summary, errors, fellback, silent, calls,
                   all_failed>>

\* the reply to the exchange-rate prompt: the call raises, the text is not
\* JSON, it is a JSON array, or an object whose "rate" is a number, a text or
\* missing
RateReply(ok, decode, rate) == [ok |-> ok, decode |-> decode, rate |-> rate]

RateReplies ==
    { RateReply(FALSE, "nojson", NoPrice), RateReply(TRUE, "nojson", NoPrice),
      RateReply(TRUE, "list", NoPrice), RateReply(TRUE, "object", NoPrice),
      RateReply(TRUE, "object", StrPrice),
      RateReply(TRUE, "object", NumPrice(Rat(9, 10))) }

ConvertExpensesKeepsDays(exp, exchange_rate) ==
    [keys |-> exp.keys,
     accommodation |-> RMul(exp.accommodation, exchange_rate),
     food |-> RMul(exp.food, exchange_rate),
     transportation |-> RMul(exp.transportation, exchange_rate),
     activities |-> RMul(exp.activities, exchange_rate),
     miscellaneous |-> RMul(exp.miscellaneous, exchange_rate),
     total |-> RMul(exp.total, exchange_rate),
     daily_budget |-> RMul(exp.daily_budget, exchange_rate),
     days |-> exp.days]

\* converted_expenses: every int or float value times the rate
ConvertExpenses(exp, exchange_rate) ==
    [keys |-> exp.keys,
     accommodation |-> RMul(exp.accommodation, exchange_rate),
     food |-> RMul(exp.food, exchange_rate),
     transportation |-> RMul(exp.transportation, exchange_rate),
     activities |-> RMul(exp.activities, exchange_rate),
     miscellaneous |-> RMul(exp.miscellaneous, exchange_rate),
     total |-> RMul(exp.total, exchange_rate),
     daily_budget |-> RMul(exp.daily_budget, exchange_rate),
     days |-> RMul(exp.days, exchange_rate)]

CurrencyAgentExecuteV1 ==
    /\ impl = 1 /\ AtNodeV1("currency_agent")
    /\ ran' = Append(ran, "CurrencyAgent")
    /\ decoded' = "none"
    /\ IF trip_request.currency = "USD"
       THEN /\ currency_rates' = [keys |-> {"USD"}, rate |-> Int2Rat(1)]
            /\ written' = written \cup {"currency_rates"}
            /\ ThenNodeV1("itinerary_agent")
            /\ UNCHANGED <<expenses, current_step, fellback, silent, calls, all_failed>>
       ELSE \E search \in SearchOutcomes, response \in RateReplies :
            /\ SearchWebV1(search)
            /\ all_failed' = (all_failed /\ (search = "error") /\ (~response.ok))
            /\ calls' = calls + 2
            /\ IF response.ok /\ response.decode = "object" /\ response.rate.tag = "str"
               THEN \* value * exchange_rate raises on a float value
                    /\ pc' = "raised"
                    /\ UNCHANGED <<expenses, currency_rates, current_step, fellback, written>>
               ELSE LET excepted == ~response.ok \/ response.decode # "object"
                        exchange_rate == IF excepted \/ response.rate.tag = "absent"
                                         THEN Int2Rat(1) ELSE response.rate.val
                    IN  /\ fellback' = IF excepted THEN fellback \cup {"CurrencyAgent"}
                                       ELSE fellback
                        /\ currency_rates' = [keys |-> {trip_request.currency},
                                              rate |-> exchange_rate]
                        /\ expenses' = ConvertExpenses(expenses, exchange_rate)
                        /\ current_step' = "currency_completed"
                        /\ written' = written \cup {"expenses", "currency_rates",
                                                    "current_step"}
                        /\ ThenNodeV1("itinerary_agent")
    /\ UNCHANGED <<impl, ui_vars, parse_vars, result, trip_request, weather_info, attractions, hotels, itinerary,
                   summary, errors>>

ItineraryFallbackV1DatedFromNextDay(req) ==
    LET days == DaysV1(req)
    IN  [i \in 1..Max(0, days) |->
           DayDict(i, AddDays(req.start_date, i),
                   Slots("dicts", <<"Morning", "Afternoon", "Evening">>),
                   Slots("dicts", <<"Breakfast", "Lunch", "Dinner">>), 170)]

\* the basic itinerary: one plan per i in range(days), dated start + i days
ItineraryFallbackV1(req) ==
    LET days == DaysV1(req)
    IN  [i \in 1..Max(0, days) |->
           DayDict(i, AddDays(req.start_date, i - 1),
                   Slots("dicts", <<"Morning", "Afternoon", "Evening">>),
                   Slots("dicts", <<"Breakfast", "Lunch", "Dinner">>), 170)]

ItineraryAgentExecuteV1 ==
    /\ impl = 1 /\ AtNodeV1("itinerary_agent")
    /\ \E response \in ModelReplies(DayElems) :
        /\ all_failed' = (all_failed /\ (~response.ok))
        /\ decoded' = DecodedShape(response)
        /\ IF response.ok /\ ~JsonLoadsFails(response)
           THEN /\ itinerary' = response.value
                /\ UNCHANGED fellback
           ELSE /\ itinerary' = JList(ItineraryFallbackV1(trip_request))
                /\ fellback' = fellback \cup {"ItineraryAgent"}
    /\ current_step' = "itinerary_completed"
    /\ calls' = calls + 1
    /\ ran' = Append(ran, "ItineraryAgent")
    /\ written' = written \cup {"itinerary", "current_step"}
    /\ ThenNodeV1("summary_agent")
    /\ UNCHANGED <<impl, ui_vars, parse_vars, result, trip_request, weather_info, attractions, hotels, expenses,
                   currency_rates, summary, errors, silent>>

\* the templated summary; amounts are formatted with two decimals
SummaryFallbackV1(req, exp) ==
    <<Line("# Travel Plan Summary"),
      SummaryLine("Destination", req.destination, Zero, <<>>),
      SummaryLine("Dates", "", Zero, <<req.start_date, req.end_date>>),
      SummaryLine("Travelers", "", Int2Rat(req.travelers), <<>>),
      SummaryLine("Total Budget", req.currency, Round2(exp.total), <<>>),
      SummaryLine("Accommodation", req.currency, Round2(exp.accommodation), <<>>),
      SummaryLine("Food", req.currency, Round2(exp.food), <<>>),
      SummaryLine("Transportation", req.currency, Round2(exp.transportation), <<>>),
      SummaryLine("Activities", req.currency, Round2(exp.activities), <<>>),
      SummaryLine("Miscellaneous", req.currency, Round2(exp.miscellaneous), <<>>),
      SummaryLine("Daily Budget", req.currency, Round2(exp.daily_budget), <<>>),
      Line("Note: Detailed summary generation encountered an issue. Basic summary provided.")>>

SummaryAgentExecuteV1 ==
    /\ impl = 1 /\ AtNodeV1("summary_agent")
    /\ \E response \in SummaryReplies :
        /\ all_failed' = (all_failed /\ (~response.ok))
        /\ IF response.ok
           THEN /\ summary' = response.text
                /\ UNCHANGED fellback
           ELSE /\ summary' = SummaryFallbackV1(trip_request, expenses)
                /\ fellback' = fellback \cup {"SummaryAgent"}
    /\ current_step' = "completed"
    /\ calls' = calls + 1
    /\ ran' = Append(ran, "SummaryAgent")
    /\ decoded' = "none"
    /\ written' = written \cup {"summary", "current_step"}
    /\ ThenNodeV1("END")
    /\ UNCHANGED <<impl, ui_vars, parse_vars, result, trip_request, weather_info, attractions, hotels, expenses,
                   currency_rates, itinerary, errors, silent>>

\* workflow.invoke returned: plan_trip returns the final state
PlanTripReturnV1 ==
    /\ impl = 1 /\ pc = "END"
    /\ result' = "state"
    /\ pc' = "done"
    /\ UNCHANGED <<impl, ui_vars, parse_vars, state_vars, hist_vars>>

\* variant: plan_trip has no handler around workflow.invoke
PlanTripExceptV1Propagates ==
    /\ impl = 1 /\ pc = "raised"
    /\ result' = "exception"
    /\ pc' = "done"
    /\ UNCHANGED <<impl, ui_vars, parse_vars, state_vars, hist_vars>>

\* a node raised: plan_trip returns {"error": ..., "partial_result": ...}
PlanTripExceptV1 ==
    /\ impl = 1 /\ pc = "raised"
    /\ result' = "error"
    /\ pc' = "done"
    /\ UNCHANGED <<impl, ui_vars, parse_vars, state_vars, hist_vars>>

NextV1 ==
    \/ PlanTripV1
    \/ WeatherAgentExecuteV1
    \/ AttractionAgentExecuteV1
    \/ HotelAgentExecuteV1
    \/ CostCalculatorAgentExecuteV1
    \/ CurrencyAgentExecuteV1
    \/ ItineraryAgentExecuteV1
    \/ SummaryAgentExecuteV1
    \/ PlanTripReturnV1
    \/ PlanTripExceptV1

Next == NextV1 \/ NextV2

Spec == Init /\ [][Next]_vars

\* ------------------------------------------------------------ properties
\* the edges added by _build_workflow, entry point first
WorkflowOrderV1 ==
    <<"WeatherAgent", "AttractionAgent", "HotelAgent", "CostCalculatorAgent", "CurrencyAgent",
      "ItineraryAgent", "SummaryAgent">>

WorkflowOrderV2 ==
    <<"WeatherAgent", "AttractionAgent", "HotelAgent", "CostCalculatorAgent",
      "ItineraryAgent", "SummaryAgent">>

WorkflowOrder == IF impl = 1 THEN WorkflowOrderV1 ELSE WorkflowOrderV2

OwnedFields == {"weather_info", "attractions", "hotels", "expenses", "itinerary", "summary"}

TripDays == DateDiffDays(trip_request.end_date, trip_request.start_date)

Finished == pc = "done"

\* C1: in every run of plan_trip the stages execute in the workflow's fixed
\* order, each exactly once, none skipped or repeated, and the run ends only
\* after Summary has run
C1_EveryStageRunsOnceInOrder == Finished => ran = WorkflowOrder

\* C2: in the later implementation no stage's execute raises: plan_trip always
\* returns a state in which weather_info, attractions, hotels, expenses,
\* itinerary and summary have all been written
C2_LaterPlanTripNeverRaises ==
    (impl = 2 /\ Finished) => (result = "state" /\ OwnedFields \subseteq written)

\* C3: in the later implementation, when every external call fails for a
\* request with end_date after start_date, all six stages run to the end,
\* every field holds its fallback value, hotels is the one fallback hotel,
\* accommodation is its nightly price times the trip days, the summary is not
\* empty and errors has one entry per stage that fell back, at least five
C3_AllCallsFailStillCompletes ==
    (impl = 2 /\ Finished /\ all_failed /\ TripDays > 0) =>
        /\ result = "state"
        /\ ran = WorkflowOrderV2
        /\ weather_info.current_temp.na /\ ~weather_info.current_temp.suffix
        /\ weather_info.forecast = <<>>
        /\ weather_info.recommendations = <<"Weather data unavailable.">>
        /\ attractions = JList(<<AttractionDict("Eiffel Tower", NumPrice(Int2Rat(28)))>>)
        /\ hotels = JList(<<HotelDict("The Ritz Paris", NumPrice(Int2Rat(2000)))>>)
        /\ expenses.accommodation = Int2Rat(2000 * TripDays)
        /\ expenses.days = Int2Rat(TripDays)
        /\ Len(itinerary.items) = 1 /\ itinerary.items[1].day = 1
        /\ itinerary.items[1].date = trip_request.start_date
        /\ summary # <<>>
        /\ summary[1].text = "# Travel Plan Summary (Error)"
        /\ Len(errors) = Cardinality(fellback)
        /\ Len(errors) >= 5

C3_Witness ==
    /\ impl = 2 /\ Finished /\ all_failed /\ TripDays = 3 /\ calls = 8
    /\ result = "state" /\ Len(errors) = 5

\* C4: given a request whose end_date is not after start_date or whose budget
\* or traveler count is not positive, plan_trip fails before any stage has
\* executed: no collaborator is called and no owned field is written
C4_InvalidRequestRejectedBeforeAnyStage ==
    ~ValidRequest(trip_request) =>
        (ran = <<>> /\ calls = 0 /\ written \cap OwnedFields = {})

\* C5: in the final state returned by plan_trip for a valid request the
\* itinerary has as many entries as the trip has days
C5_ItineraryLengthEqualsDays ==
    (Finished /\ result = "state" /\ ValidRequest(trip_request)) =>
        (itinerary.shape = "list" /\ Len(itinerary.items) = TripDays)

\* C6: in every state after CostCalculator has run, expenses.total equals the
\* sum of the category values stored beside it
C6_TotalIsSumOfStoredCategories ==
    ("expenses" \in written) =>
        expenses.total =
            RAdd(RAdd(RAdd(expenses.accommodation, expenses.food),
                      RAdd(expenses.transportation, expenses.activities)),
                 expenses.miscellaneous)

\* C7: in the earlier implementation, in every state after CostCalculator has
\* run, expenses.daily_budget equals expenses.total divided by expenses.days
C7_DailyBudgetIsTotalOverDays ==
    (impl = 1 /\ "expenses" \in written) =>
        expenses.daily_budget = RDiv(expenses.total, expenses.days)

IsPrefix(s, t) == Len(s) <= Len(t) /\ SubSeq(t, 1, Len(s)) = s

EntriesOf(stage, errs) == { i \in 1..Len(errs) : errs[i].stage = stage }

\* a step in which some stage's execute ran
StageStep == ran' # ran

\* C8: in the later implementation each stage's execute leaves errors
\* unchanged when it wrote data from its collaborators and appends exactly one
\* entry, beginning with the stage's name, when it wrote its fallback value;
\* entries are never removed or reordered, so errors holds at most one entry
\* per stage and at most six entries
C8_Step ==
    impl = 2 =>
        /\ IsPrefix(errors, errors')
        /\ StageStep =>
            LET stage == ran'[Len(ran')]
            IN  /\ (stage \in fellback' \ fellback) =>
                     /\ Len(errors') = Len(errors) + 1
                     /\ errors'[Len(errors')].stage = stage
                /\ (stage \notin fellback' \ fellback) => errors' = errors
                /\ \A s \in fellback' : Cardinality(EntriesOf(s, errors')) = 1
                /\ Len(errors') <= 6

C8_ErrorsOneEntryPerFallback == [][C8_Step]_vars

C8_Witness ==
    /\ impl = 2 /\ Finished /\ result = "state"
    /\ fellback = {"WeatherAgent", "SummaryAgent"}
    /\ Len(errors) = 2

\* C9: in the later implementation, if errors is empty in the final state then
\* no stage substituted a default for data it could not obtain: the Weather
\* stage used coordinates resolved for the destination and every web search
\* feeding Attractions and Hotels succeeded
C9_EmptyErrorsMeansNoDefaults ==
    (impl = 2 /\ Finished /\ result = "state" /\ errors = <<>>) =>
        (fellback = {} /\ silent = {})

Owns(stage) ==
    CASE stage = "WeatherAgent" -> {"weather_info"}
      [] stage = "AttractionAgent" -> {"attractions"}
      [] stage = "HotelAgent" -> {"hotels"}
      [] stage = "CostCalculatorAgent" -> {"expenses"}
      [] stage = "CurrencyAgent" -> {"expenses", "currency_rates"}
      [] stage = "ItineraryAgent" -> {"itinerary"}
      [] stage = "SummaryAgent" -> {"summary"}

ChangedFields ==
    (IF weather_info' # weather_info THEN {"weather_info"} ELSE {})
      \cup (IF attractions' # attractions THEN {"attractions"} ELSE {})
      \cup (IF hotels' # hotels THEN {"hotels"} ELSE {})
      \cup (IF expenses' # expenses THEN {"expenses"} ELSE {})
      \cup (IF currency_rates' # currency_rates THEN {"currency_rates"} ELSE {})
      \cup (IF itinerary' # itinerary THEN {"itinerary"} ELSE {})
      \cup (IF summary' # summary THEN {"summary"} ELSE {})
      \cup (IF current_step' # current_step THEN {"current_step"} ELSE {})

\* C10: each stage's execute changes only the state field it owns (Currency:
\* expenses and currency_rates), apart from appending to errors and, in the
\* earlier implementation, setting current_step; trip_request and every field
\* owned by another stage are left unchanged
C10_Step ==
    StageStep =>
        LET stage == ran'[Len(ran')]
        IN  /\ trip_request' = trip_request
            /\ IsPrefix(errors, errors')
            /\ ChangedFields \subseteq
                 (Owns(stage) \cup (IF impl = 1 THEN {"current_step"} ELSE {}))

C10_StageWritesOnlyOwnedField == [][C10_Step]_vars

C10_Witness ==
    /\ impl = 1 /\ Finished /\ result = "state" /\ ran = WorkflowOrderV1
    /\ currency_rates.keys = {"EUR"} /\ currency_rates.rate = Rat(9, 10)
    /\ expenses.keys # {} /\ summary # <<>>

\* ------------------------------------ _parse_llm_json on the text itself
\* longest reply text explored
MaxText == 5

\* a JSON member as one lexical unit
Member == "\"a\":1"

\* what a reply text is made of: a letter of commentary, a blank, the four
\* brackets and a member
Chars == {"x", " ", "{", "}", "[", "]", Member}

Texts == SeqsUpTo(Chars, MaxText)

JMember == [shape |-> "member", items |-> <<>>]
JObjectOf(items) == [shape |-> "object", items |-> items]

\* str.find: the 0-based index of the first occurrence, -1 when there is none
Find(text, c) ==
    IF \E i \in 1..Len(text) : text[i] = c
    THEN (CHOOSE i \in 1..Len(text) :
            text[i] = c /\ \A j \in 1..(i - 1) : text[j] # c) - 1
    ELSE -1

\* variant: an object is looked for first, an array only when there is none
JsonStartObjectFirst(text) ==
    LET obj_start == Find(text, "{")
        arr_start == Find(text, "[")
    IN  IF obj_start # -1 THEN obj_start ELSE arr_start

JsonStart(text) ==
    LET obj_start == Find(text, "{")
        arr_start == Find(text, "[")
    IN  IF obj_start # -1 /\ arr_start # -1 THEN Min(obj_start, arr_start)
        ELSE IF obj_start # -1 THEN obj_start
        ELSE IF arr_start # -1 THEN arr_start
        ELSE -1

\* response_content[json_start:]
SliceFrom(text, json_start) == SubSeq(text, json_start + 1, Len(text))

\* the index of the first unit at or after i that is not a blank
RECURSIVE SkipBlanks(_, _)
SkipBlanks(s, i) == IF i <= Len(s) /\ s[i] = " " THEN SkipBlanks(s, i + 1) ELSE i

At(s, i, c) == i <= Len(s) /\ s[i] = c

NoValue == [ok |-> FALSE, value |-> JObject, end |-> 0]
Value(value, end) == [ok |-> TRUE, value |-> value, end |-> end]

\* the JSON scanner at index i: the value that starts there and the index
\* after it
RECURSIVE ScanOnce(_, _)
ScanOnce(s, i) ==
    IF At(s, i, "{")
    THEN LET j == SkipBlanks(s, i + 1)
         IN  IF At(s, j, "}") THEN Value(JObjectOf(<<>>), j + 1)
             ELSE IF At(s, j, Member)
                  THEN LET k == SkipBlanks(s, j + 1)
                       IN  IF At(s, k, "}") THEN Value(JObjectOf(<<JMember>>), k + 1)
                           ELSE NoValue
             ELSE NoValue
    ELSE IF At(s, i, "[")
    THEN LET j == SkipBlanks(s, i + 1)
         IN  IF At(s, j, "]") THEN Value(JList(<<>>), j + 1)
             ELSE LET e == ScanOnce(s, j)
                      k == SkipBlanks(s, e.end)
                  IN  IF e.ok /\ At(s, k, "]") THEN Value(JList(<<e.value>>), k + 1)
                      ELSE NoValue
    ELSE NoValue

\* json.loads: one value, blanks around it, nothing else ("Extra data")
JsonLoads(s) ==
    LET r == ScanOnce(s, SkipBlanks(s, 1))
    IN  IF r.ok /\ SkipBlanks(s, r.end) = Len(s) + 1 THEN r ELSE NoValue

Raised(exception, called, json_str) ==
    [raised |-> exception, called |-> called, json_str |-> json_str, value |-> JObject]

ParseLlmJson(text, expected) ==
    LET json_start == JsonStart(text)
        json_str == SliceFrom(text, json_start)
        loaded == JsonLoads(json_str)
    IN  IF json_start = -1 THEN Raised("JSONDecodeError", FALSE, <<>>)
        ELSE IF ~loaded.ok THEN Raised("JSONDecodeError", TRUE, json_str)
        ELSE IF loaded.value.shape # expected THEN Raised("ValueError", TRUE, json_str)
        ELSE [raised |-> "none", called |-> TRUE, json_str |-> json_str,
              value |-> loaded.value]

\* one call of _parse_llm_json on a reply text
ParseLlmJsonCall ==
    /\ pc = "parse"
    /\ parsed_json' = ParseLlmJson(response_content, expected_type)
    /\ pc' = "parsed"
    /\ UNCHANGED <<impl, ui_vars, result, state_vars, hist_vars, response_content, expected_type>>

InitParse ==
    /\ impl = 2
    /\ pc = "parse"
    /\ result = "none"
    /\ trip_request = BaseRequest
    /\ weather_info = EmptyWeather
    /\ attractions = JList(<<>>)
    /\ hotels = JList(<<>>)
    /\ expenses = EmptyExpenses
    /\ currency_rates = EmptyRates
    /\ itinerary = JList(<<>>)
    /\ summary = <<>>
    /\ current_step = ""
    /\ errors = <<>>
    /\ ran = <<>>
    /\ written = {}
    /\ fellback = {}
    /\ silent = {}
    /\ calls = 0
    /\ all_failed = TRUE
    /\ decoded = "none"
    /\ response_content \in Texts
    /\ expected_type \in {"object", "list"}
    /\ parsed_json = NotCalled
    /\ form = NoForm
    /\ reported = "none"

NextParse == ParseLlmJsonCall

SpecParse == InitParse /\ [][NextParse]_vars

IsBlank(c) == c = " "
IsBracket(c) == c \in {"{", "["}

\* C11: given leading commentary holding neither '{' nor '[', then a
\* well-formed JSON object, then trailing commentary (no '{' or '[' either)
\* that is not all blanks, and expected shape object, _parse_llm_json returns
\* the embedded object
C11_EmbeddedObjectReturned ==
    (pc = "parsed" /\ expected_type = "object") =>
        \A i \in 1..Len(response_content), j \in 1..Len(response_content) :
            LET leading == SubSeq(response_content, 1, i - 1)
                object == SubSeq(response_content, i, j)
                trailing == SubSeq(response_content, j + 1, Len(response_content))
            IN  ( /\ \A k \in 1..Len(leading) : ~IsBracket(leading[k])
                  /\ object \in {<<"{", "}">>, <<"{", Member, "}">>}
                  /\ \A k \in 1..Len(trailing) : ~IsBracket(trailing[k])
                  /\ \E k \in 1..Len(trailing) : ~IsBlank(trailing[k]) )
                => /\ parsed_json.raised = "none"
                   /\ parsed_json.value =
                        JObjectOf(IF Len(object) = 2 THEN <<>> ELSE <<JMember>>)

\* C13: _parse_llm_json decodes exactly the part of the text that starts at
\* the first '{' or '[', whichever comes first, whatever the expected type,
\* and fails without decoding anything when the text holds neither
C13_DecodesFromFirstBracket ==
    pc = "parsed" =>
        LET starts == { i \in 1..Len(response_content) : IsBracket(response_content[i]) }
        IN  IF starts = {}
            THEN ~parsed_json.called /\ parsed_json.raised = "JSONDecodeError"
            ELSE /\ parsed_json.called
                 /\ \E i \in starts :
                      /\ \A j \in starts : i <= j
                      /\ parsed_json.json_str =
                           SubSeq(response_content, i, Len(response_content))

C13_Witness ==
    /\ pc = "parsed"
    /\ response_content = <<"x", "[", "{", "}", "]">>
    /\ expected_type = "list"
    /\ parsed_json.raised = "none"
    /\ parsed_json.json_str = <<"[", "{", "}", "]">>
    /\ parsed_json.value = JList(<<JObjectOf(<<>>)>>)

\* the stages that hand a model reply to _parse_llm_json
ParsingStages == {"AttractionAgent", "HotelAgent", "ItineraryAgent"}

\* what _parse_llm_json does with a reply when a given top-level type is expected
ShapeChecked(response, expected) ==
    LET p == parse_llm_json(response, expected)
    IN  /\ (p.raised = "none") =>
             (response.decode = "value" /\ response.value.shape = expected
                /\ p.value = response.value)
        /\ (response.decode = "value" /\ response.value.shape # expected) =>
             (p.raised = "ValueError")

\* C12: _parse_llm_json returns a value only when its top-level type is the
\* expected one; a reply that decodes to the other type fails, and the
\* Attractions, Hotels and Itinerary stages of the later implementation then
\* write their fallback value and append an errors entry, so the value they
\* store is always a list
C12_Step ==
    /\ (pc = "idle") =>            \* the function itself, looked at once per run
         \A expected \in {"list", "object"} :
           /\ \A r \in ModelReplies(AttractionElems) : ShapeChecked(r, expected)
           /\ \A r \in ModelReplies(HotelElems) : ShapeChecked(r, expected)
           /\ \A r \in ModelReplies(DayElems) : ShapeChecked(r, expected)
    /\ (impl = 2 /\ StageStep /\ ran'[Len(ran')] \in ParsingStages) =>
         LET stage == ran'[Len(ran')]
             entry == [stage |-> stage, msg |-> "Failed to parse LLM response."]
         IN  /\ attractions'.shape = "list" /\ hotels'.shape = "list"
             /\ itinerary'.shape = "list"
             /\ (decoded' = "object") =>
                  /\ errors' = Append(errors, entry)
                  /\ stage = "AttractionAgent" =>
                       attractions' =
                         JList(<<AttractionDict("Eiffel Tower", NumPrice(Int2Rat(28)))>>)
                  /\ stage = "HotelAgent" =>
                       hotels' = JList(<<HotelDict("The Ritz Paris", NumPrice(Int2Rat(2000)))>>)
                  /\ stage = "ItineraryAgent" =>
                       itinerary' =
                         JList(<<DayDict(1, trip_request.start_date,
                                         Slots("strs", <<"Arrival and explore.">>),
                                         Slots("strs", <<"Dinner at a local bistro.">>), 0)>>)

C12_WrongShapeIsAFailure == [][C12_Step]_vars

C12_Witness ==
    /\ impl = 2 /\ decoded = "object"
    /\ ran = <<"WeatherAgent", "AttractionAgent", "HotelAgent">>
    /\ hotels = JList(<<HotelDict("The Ritz Paris", NumPrice(Int2Rat(2000)))>>)
    /\ attractions.items # <<>> /\ attractions.items[1].name = "A"
    /\ errors = <<[stage |-> "HotelAgent", msg |-> "Failed to parse LLM response."]>>

\* --------------------------------- CostCalculatorAgent.execute on its own
\* how often execute is called on the state it returned
MaxRuns == 2

Date(y, m, d) == [y |-> y, m |-> m, d |-> d]

\* start and end dates around the end of a month, a leap day and the new year
DatePairs ==
    { <<Date(2024, 2, 28), Date(2024, 3, 1)>>, <<Date(2024, 3, 1), Date(2024, 2, 28)>>,
      <<Date(2025, 2, 28), Date(2025, 3, 1)>>, <<Date(2025, 12, 31), Date(2026, 1, 2)>>,
      <<Date(2026, 1, 2), Date(2025, 12, 30)>> }

CostRequests ==
    TripRequests \cup
      { [BaseRequest EXCEPT !.start_date = p[1], !.end_date = p[2]] : p \in DatePairs }

\* the lists the Hotels and Attractions stages can have stored: whatever array
\* the model returned, a negative price included
StoredHotelElems == HotelElems \cup { HotelDict("H", NumPrice(Rat(-50, 1))) }
StoredAttractionElems == AttractionElems \cup { AttractionDict("A", NumPrice(Rat(-10, 1))) }

CostsNode == IF impl = 1 THEN "costs_agent" ELSE "costs_node"

InitCost ==
    /\ impl \in {1, 2}
    /\ pc = CostsNode
    /\ result = "none"
    /\ trip_request \in CostRequests
    /\ weather_info = EmptyWeather
    /\ attractions \in { JList(items) : items \in SeqsUpTo(StoredAttractionElems, MaxLen) }
    /\ hotels \in { JList(items) : items \in SeqsUpTo(StoredHotelElems, MaxLen) }
    /\ expenses = EmptyExpenses
    /\ currency_rates = EmptyRates
    /\ itinerary = JList(<<>>)
    /\ summary = <<>>
    /\ current_step = ""
    /\ errors = <<>>
    /\ ran = <<>>
    /\ written = {}
    /\ fellback = {}
    /\ silent = {}
    /\ calls = 0
    /\ all_failed = TRUE
    /\ decoded = "none"
    /\ response_content = <<>>
    /\ expected_type = "object"
    /\ parsed_json = NotCalled
    /\ form = NoForm
    /\ reported = "none"

\* execute returned its state: the caller hands the same state to execute again
CostCalculatorAgentExecuteAgain ==
    /\ pc \in {"currency_agent", "itinerary_node"}
    /\ Len(ran) < MaxRuns
    /\ pc' = CostsNode
    /\ UNCHANGED <<impl, ui_vars, result, state_vars, hist_vars, parse_vars>>

NextCost ==
    \/ CostCalculatorAgentExecuteV1
    \/ CostCalculatorAgentExecuteV2
    \/ CostCalculatorAgentExecuteAgain

SpecCost == InitCost /\ [][NextCost]_vars

\* C14: a second run of CostCalculator on a state whose trip_request, hotels
\* and attractions are unchanged writes the same expenses as the first run
\* (both implementations), and no run of it makes an external call
C14_Step ==
    (StageStep /\ ran'[Len(ran')] = "CostCalculatorAgent") =>
        /\ calls' = calls
        /\ <<trip_request', hotels', attractions'>> = <<trip_request, hotels, attractions>>
        /\ ("expenses" \in written) =>
             (pc' # "raised" /\ "expenses" \in written' /\ expenses' = expenses)

C14_CostCalculatorIdempotent == [][C14_Step]_vars

C14_Witness ==
    /\ impl = 1
    /\ ran = <<"CostCalculatorAgent", "CostCalculatorAgent">>
    /\ "expenses" \in written /\ calls = 0
    /\ hotels.items # <<>> /\ attractions.items # <<>>
    /\ expenses.total.n > 0 /\ expenses.days = Int2Rat(2)

\* C16: in the later implementation expenses.days is max(1, end_date minus
\* start_date in whole days) for every pair of dates, an end_date on or before
\* start_date included: it is never below 1
C16_DaysClampedToOne ==
    (impl = 2 /\ "expenses" \in written) =>
        /\ expenses.days = Int2Rat(IF TripDays >= 1 THEN TripDays ELSE 1)
        /\ expenses.days.n >= 1 /\ expenses.days.d = 1

C16_Witness ==
    /\ impl = 2 /\ "expenses" \in written
    /\ trip_request.start_date = Date(2024, 3, 1) /\ trip_request.end_date = Date(2024, 2, 28)
    /\ expenses.days = Int2Rat(1)

NonNegative(x) == x.n >= 0 /\ x.d > 0

\* C17: after CostCalculator has run (both implementations) every numeric
\* entry of expenses is non-negative, for every request with end_date after
\* start_date, a positive budget and at least one traveler and every hotels
\* and attractions list the earlier stages can have written
C17_ExpensesNonNegative ==
    ("expenses" \in written /\ ValidRequest(trip_request)) =>
        /\ NonNegative(expenses.accommodation)
        /\ NonNegative(expenses.food)
        /\ NonNegative(expenses.transportation)
        /\ NonNegative(expenses.activities)
        /\ NonNegative(expenses.miscellaneous)
        /\ NonNegative(expenses.total)
        /\ NonNegative(expenses.daily_budget)
        /\ NonNegative(expenses.days)

\* --------------------------------------------- what plan_trip hands back
TravelStateKeysV1 ==
    {"trip_request", "weather_info", "attractions", "hotels", "expenses", "currency_rates",
     "itinerary", "summary", "current_step", "errors"}

\* the keys of the record the earlier plan_trip returned
PlanTripResultKeysV1 ==
    IF result = "error" THEN {"error", "partial_result"}
    ELSE IF result = "state" THEN TravelStateKeysV1
    ELSE {}

\* C15: the earlier plan_trip never lets an exception reach its caller: when a
\* stage raised it returns a record with "error" and "partial_result",
\* otherwise the final state, which holds trip_request, expenses and summary
\* and no "error" key
C15_EarlierPlanTripNeverRaises ==
    (impl = 1 /\ Finished) =>
        /\ result \in {"state", "error"}
        /\ (result = "state") <=> (ran = WorkflowOrderV1 /\ "summary" \in written)
        /\ (result = "state") =>
             /\ {"trip_request", "expenses", "summary"} \subseteq PlanTripResultKeysV1
             /\ "error" \notin PlanTripResultKeysV1
             /\ {"expenses", "summary"} \subseteq written
        /\ (result = "error") =>
             /\ PlanTripResultKeysV1 = {"error", "partial_result"}
             /\ "summary" \notin written

C15_Witness ==
    /\ impl = 1 /\ Finished /\ result = "error"
    /\ ran = <<"WeatherAgent", "AttractionAgent", "HotelAgent", "CostCalculatorAgent">>
    /\ "expenses" \notin written

HasAmount(text, amount) ==
    \E i \in 1..Len(text) : text[i].label # "" /\ text[i].value = amount
HasText(text, words) == \E i \in 1..Len(text) : text[i].text = words
HasDates(text, dates) == \E i \in 1..Len(text) : text[i].dates = dates

\* C18: in the later implementation, when the Summary stage's model call
\* fails, the summary written is not empty and holds the budget numbers of
\* expenses (the total and each category) with the request's destination and
\* dates
C18_FallbackSummaryHasNumbers ==
    (impl = 2 /\ "SummaryAgent" \in fellback) =>
        /\ summary # <<>>
        /\ HasAmount(summary, expenses.total)
        /\ HasAmount(summary, expenses.accommodation)
        /\ HasAmount(summary, expenses.food)
        /\ HasAmount(summary, expenses.transportation)
        /\ HasAmount(summary, expenses.activities)
        /\ HasText(summary, trip_request.destination)
        /\ HasDates(summary, <<trip_request.start_date, trip_request.end_date>>)

\* ------------------------------------------- the state keys a stage reads
\* variant: the Hotels stage also consults the itinerary
ReadsV2HotelsUseItinerary(stage) ==
    CASE stage = "WeatherAgent" -> {"trip_request", "errors"}
      [] stage = "AttractionAgent" -> {"trip_request", "errors"}
      [] stage = "HotelAgent" -> {"trip_request", "errors", "itinerary"}
      [] stage = "CostCalculatorAgent" -> {"trip_request", "hotels", "attractions"}
      [] stage = "ItineraryAgent" -> {"trip_request", "expenses", "attractions", "errors"}
      [] stage = "SummaryAgent" -> {"trip_request", "itinerary", "expenses", "errors"}

ReadsV2(stage) ==
    CASE stage = "WeatherAgent" -> {"trip_request", "errors"}
      [] stage = "AttractionAgent" -> {"trip_request", "errors"}
      [] stage = "HotelAgent" -> {"trip_request", "errors"}
      [] stage = "CostCalculatorAgent" -> {"trip_request", "hotels", "attractions"}
      [] stage = "ItineraryAgent" -> {"trip_request", "expenses", "attractions", "errors"}
      [] stage = "SummaryAgent" -> {"trip_request", "itinerary", "expenses", "errors"}

ReadsV1(stage) ==
    CASE stage = "WeatherAgent" -> {"trip_request"}
      [] stage = "AttractionAgent" -> {"trip_request"}
      [] stage = "HotelAgent" -> {"trip_request"}
      [] stage = "CostCalculatorAgent" -> {"trip_request", "hotels", "attractions"}
      [] stage = "CurrencyAgent" -> {"trip_request", "expenses"}
      [] stage = "ItineraryAgent" ->
           {"trip_request", "attractions", "weather_info", "expenses"}
      [] stage = "SummaryAgent" ->
           {"trip_request", "weather_info", "attractions", "hotels", "expenses", "itinerary"}

Reads(stage) == IF impl = 1 THEN ReadsV1(stage) ELSE ReadsV2(stage)

\* the stage that assigns an owned field first
Owner(field) ==
    CASE field = "weather_info" -> "WeatherAgent"
      [] field = "attractions" -> "AttractionAgent"
      [] field = "hotels" -> "HotelAgent"
      [] field = "expenses" -> "CostCalculatorAgent"
      [] field = "itinerary" -> "ItineraryAgent"
      [] field = "summary" -> "SummaryAgent"

Ran(stage) == \E i \in 1..Len(ran) : ran[i] = stage

\* C19: in every run (both implementations) a stage that reads a field owned
\* by another stage runs after that stage has run and written the field
C19_Step ==
    StageStep =>
        LET stage == ran'[Len(ran')]
        IN  \A field \in (Reads(stage) \cap OwnedFields) \ Owns(stage) :
                field \in written /\ Ran(Owner(field))

C19_NoReadBeforeWrite == [][C19_Step]_vars

C19_Witness ==
    /\ impl = 2 /\ Finished /\ result = "state"
    /\ ran = WorkflowOrderV2 /\ OwnedFields \subseteq written
    /\ fellback = {}

WellFormedPrice(price) == price.tag = "num" /\ price.val.n >= 0

\* C20: in the later implementation every element stored in attractions and
\* hotels is an object with its required keys and a non-negative numeric
\* price: a decoded array with any other element is replaced by the fallback
C20_StoredElementsValidated ==
    impl = 2 =>
        /\ \A i \in 1..Len(attractions.items) :
             attractions.items[i].kind = "dict" /\ WellFormedPrice(attractions.items[i].price)
        /\ \A i \in 1..Len(hotels.items) :
             hotels.items[i].kind = "dict"
               /\ WellFormedPrice(hotels.items[i].price_per_night)

\* C21: in the earlier implementation a stage that substitutes its fallback
\* value appends an entry to errors, so in the final state errors is non-empty
\* exactly when some stage fell back
C21_EarlierErrorsIffFallback ==
    (impl = 1 /\ Finished /\ result = "state") =>
        ((errors # <<>>) <=> (fellback # {}))

\* C23: in the earlier implementation no division made by CostCalculator has
\* a zero divisor, for every request whose dates parse (end_date equal to
\* start_date included) and every hotels and attractions list
C23_NoZeroDivisor ==
    (impl = 1 /\ Ran("CostCalculatorAgent")) =>
        ~ZeroDivisionV1(trip_request, hotels, attractions)

\* C25: in the earlier implementation expenses.days in the final state is the
\* trip's number of days for every target currency and exchange rate
C25_DaysSurviveConversion ==
    (impl = 1 /\ Finished /\ result = "state") => expenses.days = Int2Rat(TripDays)

\* the one hotel either implementation's Hotels stage stores when it falls back
HotelFallback(v, req) == IF v = 1 THEN HotelFallbackV1(req) ELSE HotelFallbackV2

\* price_per_night * days / budget of a fallback hotel
BudgetFraction(hotel, req) ==
    RDiv(RMul(hotel.price_per_night.val,
              Int2Rat(DateDiffDays(req.end_date, req.start_date))),
         Int2Rat(req.budget))

\* C27: when the Hotels stage falls back (either implementation) hotels holds
\* exactly one hotel and its price_per_night is a fixed fraction of
\* budget / days: price * days / budget is the same number for this request
\* as for every other valid request
C27_FallbackPriceIsBudgetShare ==
    ("HotelAgent" \in fellback /\ ValidRequest(trip_request)) =>
        /\ Len(hotels.items) = 1
        /\ \A req \in ValidRequests :
             BudgetFraction(hotels.items[1], trip_request)
               = BudgetFraction(HotelFallback(impl, req)[1], req)

\* the entries of expenses, all of them numbers
ExpenseFields ==
    {"accommodation", "food", "transportation", "activities", "miscellaneous",
     "total", "daily_budget", "days"}

C24_Step ==
    (impl = 1 /\ ran' = Append(ran, "CurrencyAgent") /\ pc' # "raised") =>
        IF trip_request.currency = "USD"
        THEN expenses' = expenses
        ELSE /\ \A f \in ExpenseFields :
                  expenses'[f] = RMul(expenses[f], currency_rates'.rate)
             /\ ("CurrencyAgent" \in fellback') =>
                  (currency_rates'.rate = Int2Rat(1) /\ expenses' = expenses)

\* C24: a currency step of the earlier implementation that returns multiplies,
\* for a target currency other than USD, every numeric entry of expenses by
\* one and the same rate (the rate it stores), the rate being 1 and expenses
\* unchanged when the model call or the decoding failed; for USD it leaves
\* expenses unchanged
C24_CurrencyScalesEveryField == [][C24_Step]_vars

C24_Witness ==
    /\ impl = 1 /\ current_step = "currency_completed"
    /\ trip_request.currency = "EUR"
    /\ currency_rates.rate = Rat(9, 10)
    /\ expenses.total # Zero
    /\ expenses.days = RMul(Int2Rat(TripDays), Rat(9, 10))

\* C26: in the earlier implementation, when the ItineraryBuilder model call
\* failed or its reply could not be decoded, the itinerary has one entry per
\* trip day: entry i carries day number i and the date i - 1 days after
\* start_date, three activity slots (Morning, Afternoon, Evening), three meal
\* slots and the estimated cost 170
C26_BasicItineraryPerDay ==
    (impl = 1 /\ "ItineraryAgent" \in fellback) =>
        /\ itinerary.shape = "list"
        /\ DOMAIN itinerary.items = 1..TripDays
        /\ \A i \in DOMAIN itinerary.items :
             LET plan == itinerary.items[i]
             IN  /\ plan.kind = "dict"
                 /\ plan.day = i
                 /\ DateDiffDays(plan.date, trip_request.start_date) = i - 1
                 /\ plan.activities.slots = <<"Morning", "Afternoon", "Evening">>
                 /\ Len(plan.meals.slots) = 3
                 /\ plan.estimated_cost = 170

C26_Witness ==
    /\ impl = 1 /\ "ItineraryAgent" \in fellback
    /\ TripDays = MaxTripDays
    /\ Len(itinerary.items) = MaxTripDays
    /\ itinerary.items[MaxTripDays].date.m = 9

\* ---------------------------------------------------------------------------
\* The earlier CostCalculator on hotel lists longer than three
MaxHotels == 4

\* state["hotels"] as the earlier Hotels stage stores it: json.loads' list with
\* priced hotels and elements that are not hotel objects
LongHotelElems ==
    { HotelDict("H", NumPrice(Int2Rat(p))) : p \in {80, 120, 250} } \cup {HotelOther}

InitHotels ==
    /\ impl = 1
    /\ pc = "costs_agent"
    /\ result = "none"
    /\ trip_request \in TripRequests
    /\ weather_info = EmptyWeather
    /\ attractions = JList(AttractionFallbackV1)
    /\ hotels \in { JList(items) : items \in SeqsUpTo(LongHotelElems, MaxHotels) }
    /\ expenses = EmptyExpenses
    /\ currency_rates = EmptyRates
    /\ itinerary = JList(<<>>)
    /\ summary = <<>>
    /\ current_step = "hotels_completed"
    /\ errors = <<>>
    /\ ran = <<>>
    /\ written = {}
    /\ fellback = {}
    /\ silent = {}
    /\ calls = 0
    /\ all_failed = TRUE
    /\ decoded = "none"
    /\ response_content = <<>>
    /\ expected_type = "object"
    /\ parsed_json = NotCalled
    /\ form = NoForm
    /\ reported = "none"

NextHotels == CostCalculatorAgentExecuteV1

SpecHotels == InitHotels /\ [][NextHotels]_vars

\* C28: the earlier CostCalculator stores accommodation = days times the
\* average price_per_night of the first min(3, n) of the n hotels when n > 0
\* (whatever follows the third hotel) and days times 100 when there is none
C28_AccommodationFromFirstThree ==
    (impl = 1 /\ current_step = "costs_completed") =>
        LET n == Len(hotels.items)
            k == Min(3, n)
            prices == [i \in 1..k |-> hotels.items[i].price_per_night.val]
        IN  expenses.accommodation =
              IF n > 0
              THEN RMul(Int2Rat(TripDays), RDiv(RSum(prices), Int2Rat(k)))
              ELSE Int2Rat(TripDays * 100)

\* four hotels, the fourth not even a hotel object, and the average of the
\* first three (80, 120, 250) stored
C28_Witness ==
    /\ impl = 1 /\ current_step = "costs_completed"
    /\ Len(hotels.items) = MaxHotels
    /\ hotels.items[4] = HotelOther
    /\ TripDays = 2
    /\ expenses.accommodation = Int2Rat(300)

\* ---------------------------------------------------------------------------
\* The earlier Weather stage on payloads around its thresholds
DryDay == WeatherDay(StartDate, 22, 0)

\* daily blocks: none, precipitation 5 and 6, a wet day after a dry one, and
\* eight days of which only the eighth (cut by [:7]) is wet
ThresholdForecasts ==
    { <<>>, <<WeatherDay(StartDate, 22, 5)>>, <<WeatherDay(StartDate, 22, 6)>>,
      <<DryDay, WeatherDay(AddDays(StartDate, 1), 22, 6)>>,
      [i \in 1..8 |-> WeatherDay(StartDate, 22, IF i = 8 THEN 6 ELSE 0)] }

ThresholdResponses ==
    { WeatherResponse(TRUE, TRUE, deg, days # <<>>, days) :
        deg \in {9, 10, 25, 26}, days \in ThresholdForecasts }
      \cup { WeatherResponse(TRUE, FALSE, 0, days # <<>>, days) : days \in ThresholdForecasts }
      \cup { WeatherResponse(FALSE, FALSE, 0, FALSE, <<>>) }

InitWeather ==
    /\ impl = 1
    /\ pc = "weather_agent"
    /\ result = "none"
    /\ trip_request \in TripRequests
    /\ weather_info = EmptyWeather
    /\ attractions = JList(<<>>)
    /\ hotels = JList(<<>>)
    /\ expenses = EmptyExpenses
    /\ currency_rates = EmptyRates
    /\ itinerary = JList(<<>>)
    /\ summary = <<>>
    /\ current_step = "start"
    /\ errors = <<>>
    /\ ran = <<>>
    /\ written = {}
    /\ fellback = {}
    /\ silent = {}
    /\ calls = 0
    /\ all_failed = TRUE
    /\ decoded = "none"
    /\ response_content = <<>>
    /\ expected_type = "object"
    /\ parsed_json = NotCalled
    /\ form = NoForm
    /\ reported = "none"

WeatherAgentExecuteThresholdsV1 == WeatherAgentRunsV1(ThresholdResponses)

NextWeather == WeatherAgentExecuteThresholdsV1

SpecWeather == InitWeather /\ [][NextWeather]_vars

TemperatureAdvice ==
    {"Pack warm clothing and layers",
     "Pack light, breathable clothing and sun protection",
     "Comfortable weather for outdoor activities"}

MaxSteps == 8

InitSupervisor ==
    /\ impl = 1
    /\ pc = "supervisor"
    /\ result = "none"
    /\ trip_request \in TripRequests
    /\ weather_info = EmptyWeather
    /\ attractions = JList(<<>>)
    /\ hotels = JList(<<>>)
    /\ expenses = EmptyExpenses
    /\ currency_rates = EmptyRates
    /\ itinerary = JList(<<>>)
    /\ summary = <<>>
    /\ current_step = "start"
    /\ errors = <<>>
    /\ ran = <<>>
    /\ written = {}
    /\ fellback = {}
    /\ silent = {}
    /\ calls = 0
    /\ all_failed = TRUE
    /\ decoded = "none"
    /\ response_content = <<>>
    /\ expected_type = "object"
    /\ parsed_json = NotCalled
    /\ form = NoForm
    /\ reported = "none"

\* route_next names an agent: execute returns what that agent's execute returns
SupervisorAgentExecute ==
    /\ pc = "supervisor"
    /\ Len(ran) < MaxSteps
    /\ RouteNext(current_step) # "END"
    /\ \/ WeatherAgentExecuteV1
       \/ AttractionAgentExecuteV1
       \/ HotelAgentExecuteV1
       \/ CostCalculatorAgentExecuteV1
       \/ CurrencyAgentExecuteV1
       \/ ItineraryAgentExecuteV1
       \/ SummaryAgentExecuteV1

\* route_next gives END: execute returns the state as it is
SupervisorAgentExecuteEnd ==
    /\ pc = "supervisor"
    /\ RouteNext(current_step) = "END"
    /\ pc' = "routed_END"
    /\ UNCHANGED <<impl, ui_vars, result, state_vars, hist_vars, parse_vars>>

NextSupervisor == SupervisorAgentExecute \/ SupervisorAgentExecuteEnd

SpecSupervisor == InitSupervisor /\ [][NextSupervisor]_vars

\* C22: driven through the routing table from current_step "start", the
\* earlier pipeline runs the stages of the compiled graph in the graph's
\* order, each once, and route_next gives END only at current_step
\* "completed", after all of them ran, for every request
C22_RoutingTableFollowsGraph ==
    (impl = 1 /\ pc \in {"supervisor", "routed_END"}) =>
        /\ IsPrefix(ran, WorkflowOrderV1)
        /\ (pc = "routed_END") => (current_step = "completed" /\ ran = WorkflowOrderV1)

\* ---------------------------------------------------------------------------
\* The two front-ends (gradio_travel_app.py, streamlit_travel_app.py): the
\* handler checks the form and calls agent.plan_trip of ai_travel_agent.py.
\* A text is the sequence of its units: a blank, a comma, or a word.

\* str.strip
RECURSIVE Strip(_)
Strip(text) ==
    IF text # <<>> /\ Head(text) = " " THEN Strip(Tail(text))
    ELSE IF text # <<>> /\ text[Len(text)] = " "
         THEN Strip(SubSeq(text, 1, Len(text) - 1))
    ELSE text

\* str.split(","): the pieces between the commas, at least one
RECURSIVE Split(_)
Split(text) ==
    LET comma == Find(text, ",")
    IN  IF comma = -1 THEN <<text>>
        ELSE <<SubSeq(text, 1, comma)>> \o Split(SubSeq(text, comma + 2, Len(text)))

\* [f(x) for x in items]
RECURSIVE StripEach(_)
StripEach(items) ==
    IF items = <<>> THEN <<>> ELSE <<Strip(Head(items))>> \o StripEach(Tail(items))

NotEmpty(text) == text # <<>>

\* datetime.strptime(text, "%Y-%m-%d") raises ValueError
StrptimeRaises(date) ==
    ~(date.m \in 1..12 /\ date.d \in 1..DaysInMonth(date.y, date.m))

DestinationTexts == { <<>>, <<" ">>, <<"Lisbon">>, <<" ", "Lisbon", " ">> }
CustomTexts == { <<>>, <<",">>, <<"vegan", ",", " ">> }
NoSuchDate == [y |-> 2025, m |-> 13, d |-> 1]

\* a form that passes every check of either handler
BaseForm(front_end) ==
    [front_end |-> front_end, environment |-> "ok", destination |-> <<"Lisbon">>,
     start_date |-> StartDate, end_date |-> AddDays(StartDate, 1), today |-> StartDate,
     preferences |-> << <<"food">> >>, custom_preferences |-> <<>>]

\* the forms that differ from it in the environment, the destination, the end
\* date, or in the preferences (nothing selected, with each custom text)
FormsAround(base) ==
    { [base EXCEPT !.environment = e] : e \in {"ok", "missing_keys", "load_error"} }
      \cup { [base EXCEPT !.destination = d] : d \in DestinationTexts }
      \cup { [base EXCEPT !.end_date = e] : e \in {DayBeforeStart, StartDate} }
      \cup { [base EXCEPT !.preferences = <<>>, !.custom_preferences = c] :
               c \in CustomTexts }

\* the dates are typed: one may be no date, and the start may be past
GradioForms ==
    FormsAround(BaseForm("gradio"))
      \cup { [BaseForm("gradio") EXCEPT !.start_date = NoSuchDate],
             [BaseForm("gradio") EXCEPT !.today = AddDays(StartDate, 1)] }

\* st.date_input gives dates, and none before today for the start
StreamlitForms == FormsAround(BaseForm("streamlit"))

\* all_preferences of plan_trip_interface: blank custom entries are dropped
GradioPreferences(f) ==
    f.preferences \o
      (IF Strip(f.custom_preferences) # <<>>
       THEN SelectSeq(StripEach(Split(f.custom_preferences)), NotEmpty)
       ELSE <<>>)

\* preferences of main: every custom entry is kept, stripped
StreamlitPreferences(f) ==
    f.preferences \o
      (IF f.custom_preferences # <<>> THEN StripEach(Split(f.custom_preferences))
       ELSE <<>>)

\* the first return of plan_trip_interface taken before TripRequest is built
GradioCheck(f) ==
    IF f.environment = "missing_keys" THEN "configuration_error"
    ELSE IF f.environment = "load_error" THEN "system_error"
    ELSE IF f.destination = <<>> \/ Strip(f.destination) = <<>> THEN "input_error"
    ELSE IF StrptimeRaises(f.start_date) \/ StrptimeRaises(f.end_date) THEN "date_format"
    ELSE IF strptime(f.start_date) >= strptime(f.end_date) THEN "date_order"
    ELSE IF strptime(f.start_date) < strptime(f.today) THEN "date_past"
    ELSE IF GradioPreferences(f) = <<>> THEN "preference_error"
    ELSE "ok"

StreamlitCheckIgnoresPreferences(f) ==
    IF f.environment = "missing_keys" THEN "configuration_error"
    ELSE IF f.environment = "load_error" THEN "system_error"
    ELSE IF f.destination = <<>> THEN "input_error"
    ELSE IF strptime(f.start_date) >= strptime(f.end_date) THEN "date_order"
    ELSE "ok"

\* st.stop() in the sidebar, or the st.error branch taken on submit
StreamlitCheck(f) ==
    IF f.environment = "missing_keys" THEN "configuration_error"
    ELSE IF f.environment = "load_error" THEN "system_error"
    ELSE IF f.destination = <<>> THEN "input_error"
    ELSE IF strptime(f.start_date) >= strptime(f.end_date) THEN "date_order"
    ELSE IF StreamlitPreferences(f) = <<>> THEN "preference_error"
    ELSE "ok"

InitFrontEnd ==
    /\ impl = 1
    /\ pc = "form"
    /\ result = "none"
    /\ trip_request = BaseRequest
    /\ weather_info = EmptyWeather
    /\ attractions = JList(<<>>)
    /\ hotels = JList(<<>>)
    /\ expenses = EmptyExpenses
    /\ currency_rates = EmptyRates
    /\ itinerary = JList(<<>>)
    /\ summary = <<>>
    /\ current_step = ""
    /\ errors = <<>>
    /\ ran = <<>>
    /\ written = {}
    /\ fellback = {}
    /\ silent = {}
    /\ calls = 0
    /\ all_failed = TRUE
    /\ decoded = "none"
    /\ response_content = <<>>
    /\ expected_type = "object"
    /\ parsed_json = NotCalled
    /\ form \in GradioForms \cup StreamlitForms
    /\ reported = "none"

\* plan_trip_interface up to its call of agent.plan_trip
PlanTripInterface ==
    /\ pc = "form" /\ form.front_end = "gradio"
    /\ IF GradioCheck(form) # "ok"
       THEN /\ reported' = GradioCheck(form)
            /\ pc' = "returned"
            /\ UNCHANGED trip_request
       ELSE /\ trip_request' =
                 [BaseRequest EXCEPT !.destination = Strip(form.destination),
                                     !.start_date = form.start_date,
                                     !.end_date = form.end_date,
                                     !.preferences = GradioPreferences(form)]
            /\ pc' = "idle"
            /\ UNCHANGED reported
    /\ UNCHANGED <<impl, result, weather_info, attractions, hotels, expenses, currency_rates,
                   itinerary, summary, current_step, errors, hist_vars, parse_vars, form>>

\* main up to its call of agent.plan_trip, the form submitted
StreamlitMain ==
    /\ pc = "form" /\ form.front_end = "streamlit"
    /\ IF StreamlitCheck(form) # "ok"
       THEN /\ reported' = StreamlitCheck(form)
            /\ pc' = "returned"
            /\ UNCHANGED trip_request
       ELSE /\ trip_request' =
                 [BaseRequest EXCEPT !.destination = form.destination,
                                     !.start_date = form.start_date,
                                     !.end_date = form.end_date,
                                     !.preferences = StreamlitPreferences(form)]
            /\ pc' = "idle"
            /\ UNCHANGED reported
    /\ UNCHANGED <<impl, result, weather_info, attractions, hotels, expenses, currency_rates,
                   itinerary, summary, current_step, errors, hist_vars, parse_vars, form>>

\* agent.plan_trip returned: an "error" result is shown as such; otherwise the
\* plan is shown, unless formatting it raises inside the handler's try
ShowResult ==
    /\ pc = "done" /\ form.front_end # "none"
    /\ reported' \in (IF result = "error" THEN {"planning_error"}
                      ELSE {"plan", "unexpected_error"})
    /\ pc' = "returned"
    /\ UNCHANGED <<impl, result, state_vars, hist_vars, parse_vars, form>>

NextFrontEnd == PlanTripInterface \/ StreamlitMain \/ NextV1 \/ ShowResult

SpecFrontEnd == InitFrontEnd /\ [][NextFrontEnd]_vars

\* the errors reported before any call of the planner
CheckErrors ==
    {"configuration_error", "system_error", "input_error", "date_format", "date_order",
     "date_past", "preference_error"}

\* agent.plan_trip was called: it is about to run, or has set current_step
PlannerCalled == pc = "idle" \/ current_step # ""

\* the form fails one of the three checks: no destination, an end date not
\* after the start date, nothing selected and nothing typed as preference
FailsCheck(f) ==
    \/ f.destination = <<>>
    \/ (~StrptimeRaises(f.start_date) /\ ~StrptimeRaises(f.end_date)
          /\ strptime(f.end_date) <= strptime(f.start_date))
    \/ (f.preferences = <<>> /\ f.custom_preferences = <<>>)

\* C30: in both front-ends agent.plan_trip is called only with a destination
\* that is not empty, an end date strictly after the start date and a
\* preference list that is not empty; a handler whose form fails a check
\* reports an error and calls no planner
C30_PlannerCalledAfterChecks ==
    (form.front_end \in {"gradio", "streamlit"}) =>
        /\ PlannerCalled =>
             /\ trip_request.destination # <<>>
             /\ DateDiffDays(trip_request.end_date, trip_request.start_date) > 0
             /\ trip_request.preferences # <<>>
        /\ (pc # "form" /\ FailsCheck(form)) => reported \in CheckErrors
        /\ (reported \in CheckErrors) =>
             (~PlannerCalled /\ pc = "returned" /\ ran = <<>> /\ calls = 0)

\* the planner ran for a gradio form with nothing selected and the custom
\* text "vegan, ", whose blank second entry was dropped
C30_Witness ==
    /\ form.front_end = "gradio" /\ PlannerCalled /\ Ran("SummaryAgent")
    /\ form.preferences = <<>>
    /\ form.custom_preferences = <<"vegan", ",", " ">>
    /\ trip_request.preferences = << <<"vegan">> >>

====
